---- MODULE Spec2Model ----
(***************************************************************************)
(* brew-maintainer: the maintenance orchestrator (service.rs), the process *)
(* supervisor (maintenance_command.rs), the command descriptor             *)
(* (brew_command.rs), the outdated report (formulae.rs) and the binary's   *)
(* entry point (main.rs).                                                  *)
(*                                                                         *)
(* One supervised call (execute_with_timeout) is modelled thread by        *)
(* thread: the consumer (the async fn itself), the two tokio tasks that    *)
(* watch stdout and stderr, the completion thread, the timeout thread and  *)
(* the child process, which is the environment.                            *)
(***************************************************************************)
EXTENDS Integers, Sequences, FiniteSets, TLC

\* ---------------------------------------------------------------- bounds
MaxFormulae == 2
MaxCasks == 1
PipeCap == 1

\* ------------------------------------------------------- program constants
\* Duration::minutes(5), in milliseconds (service.rs:61)
FiveMinutes == 300000

VARIABLES
    \* run_maintenance (service.rs)
    pc,                 \* position in run_maintenance
    runResult,          \* what run_maintenance returned: "none", "Ok", "Err"
    runContext,         \* the .context(..) phase of the returned error
    outdated_packages,  \* the decoded report of phase 2
    idx,                \* position of the phase-3 loop in outdated_packages.iter()
    failed_upgrade,     \* the Vec<&Package> of phase 3
    failed_packages,    \* what phase 3 returned to run_maintenance
    issued,             \* every executor call made so far, in order
    phaseLog,           \* Ok or Err of every executor call that returned, in order
    lastExec,           \* the latest blocking execute: descriptor, what brew did, what came back
    \* execute_with_timeout (maintenance_command.rs)
    cpc,                \* position of the consumer
    call_cmd,           \* the `cmd` argument of the call
    call_timeout,       \* the `timeout` argument of the call, in milliseconds
    atStart,            \* what the consumer found when it entered its loop
    result,             \* the value of `result` / the returned value
    firstEvent,         \* what the consumer's event_rx.recv() yielded
    firstSent,          \* the first event any producer put on the event channel
    error_q,            \* the (error_tx, error_rx) channel
    event_q,            \* the (event_tx, event_rx) channel
    watcher,            \* the two monitor_async_output tasks, by stream
    completion,         \* the completion thread
    waitResult,         \* `result` inside the completion thread
    timer,              \* the timeout thread
    \* the child process and its pipes (environment)
    childState,         \* "none", "running", "zombie" (exited, not waited), "reaped"
    exitStatus,         \* "none", "ok", "fail", "killed"
    killPending,        \* SIGKILL sent, not yet acted on
    plan,               \* what the child does (fixed at spawn)
    todo,               \* the lines of its script the child has not written yet, by stream
    pipe,               \* the lines written to stdout / stderr and not yet read
    promptRead,         \* a watcher read a prompt while the child ran and the alarm slept
    \* the operating system around the calls
    ambient,            \* the environment variables of this process
    childEnv,           \* the environment the supervised child started with
    strayKill,          \* a SIGKILL of this call was delivered to a process that is not its child
    orphans,            \* children that still existed when their call returned
    \* main (main.rs)
    mpc, mstep, moutput, mlog, mcommands, exitCode

orchVars == <<pc, runResult, runContext, outdated_packages, idx, failed_upgrade,
              failed_packages, issued, phaseLog, lastExec>>
callVars == <<cpc, call_cmd, call_timeout, atStart, result, firstEvent, firstSent, error_q, event_q, watcher, completion,
              waitResult, timer>>
childVars == <<childState, exitStatus, killPending, plan, todo, pipe, promptRead>>
mainVars == <<mpc, mstep, moutput, mlog, mcommands, exitCode>>
osVars == <<ambient, childEnv, strayKill, orphans>>
vars == <<orchVars, callVars, childVars, mainVars, osVars>>

\* ------------------------------------------------------------ data model
\* formulae.rs: Package (name and pinned are the fields the orchestrator can see)
Foo == [name |-> "foo", pinned |-> FALSE]
Qux == [name |-> "qux", pinned |-> TRUE]

\* the first n packages of a list that repeats pattern
Cycle(pattern, n) == [i \in 1..n |-> pattern[((i - 1) % Len(pattern)) + 1]]

\* the lists `brew outdated --json` reports in the model: a pinned package, a
\* name that occurs twice, and the same package as formula and as cask
FormulaePatterns == { <<Qux, Qux, Foo>>, <<Qux, Foo>> }
CaskPatterns == { <<Foo, Qux>> }

\* formulae.rs: OutdatedPackages
OutdatedPackages ==
    { [formulae |-> Cycle(p, f), casks |-> Cycle(q, c)] :
        p \in FormulaePatterns, f \in 0..MaxFormulae, q \in CaskPatterns, c \in 0..MaxCasks }

NoReport == [formulae |-> <<>>, casks |-> <<>>]

\* OutdatedPackages::iter(): formulae first, then casks, each in its own order
iter(o) == o.formulae \o o.casks

\* brew_command.rs: BrewCommand::to_args
to_args(cmd) ==
    CASE cmd.kind = "Update" -> <<"update">>
      [] cmd.kind = "Outdated" -> <<"outdated", "--json">>
      [] cmd.kind = "Upgrade" -> <<"upgrade", cmd.package_name>>
      [] cmd.kind = "Cleanup" -> <<"cleanup">>

\* brew_command.rs: BrewCommand::to_env
to_env(cmd) == cmd.envs

\* an environment is a set of <<name, value>> pairs, one per name: the
\* environment of a login shell, and one in which HOME is not set
ShellEnv == { <<"HOME", "/Users/me">>, <<"PATH", "/usr/bin">>, <<"HOMEBREW_GITHUB_API_TOKEN", "secret">> }
BareEnv == { <<"PATH", "/usr/bin">>, <<"LANG", "C">> }
Ambients == {ShellEnv, BareEnv}

\* maintenance_command.rs: RealBrewCommand::envs: HOME and PATH, each when set
envs(env) == { p \in env : p[1] = "HOME" \/ p[1] = "PATH" }

\* variant: the child starts from an empty environment
cleared_env(env, given) == given

\* std::process::Command::envs (no env_clear): the child inherits the
\* environment of this process, with the given variables added or replaced
child_env(env, given) == given \cup { p \in env : \A q \in given : q[1] # p[1] }

\* maintenance_command.rs:46: timeout.num_milliseconds().max(0)
std_timeout(t) == IF t > 0 THEN t ELSE 0

\* lines a child may write
PromptLine == "Proceed? (y/N)"
PlainLine == "==> Downloading"

\* maintenance_command.rs: is_waiting_for_input, on the lines of the model:
\* "Proceed? (y/N)" lower-cased contains "proceed?" and "y/n"
is_waiting_for_input(line) == line = PromptLine

\* what a child does: writes `out` to stdout and `err` to stderr, then, if
\* chatty, keeps writing plain lines; once its script is written it exits
\* with `exit`, or never does
Plans ==
    { p \in [exit : {"ok", "fail", "never"},
             out : {<<>>, <<PromptLine>>},
             err : {<<>>, <<PromptLine>>},
             chatty : BOOLEAN] :
        /\ p.out = <<>> \/ p.err = <<>>
        /\ p.chatty => (p.exit = "never" /\ p.out = <<>> /\ p.err = <<>>) }

NoPlan == [exit |-> "never", out |-> <<>>, err |-> <<>>, chatty |-> FALSE]

Streams == {"stdout", "stderr"}

\* ------------------------------------------------------------ values
\* brew_command.rs: BrewError, and Result<_, BrewError>
NoResult == [tag |-> "none", kind |-> "none", msg |-> "none"]
OkResult == [tag |-> "Ok", kind |-> "none", msg |-> "none"]
Err(kind, msg) == [tag |-> "Err", kind |-> kind, msg |-> msg]
InputRequested == Err("InputRequested", "none")
Timeout == Err("Timeout", "none")

\* maintenance_command.rs: ProcessEvent
NoEvent == [type |-> "none", ok |-> FALSE, status |-> "none", error |-> NoResult]
ErrorEvent(e) == [type |-> "Error", ok |-> FALSE, status |-> "none", error |-> e]
CompletedOk(status) == [type |-> "Completed", ok |-> TRUE, status |-> status, error |-> NoResult]
CompletedErr == [type |-> "Completed", ok |-> FALSE, status |-> "none", error |-> NoResult]
ChannelClosed == [type |-> "Closed", ok |-> FALSE, status |-> "none", error |-> NoResult]

\* ExitStatus::success(): exit code 0; a signalled child has no code
success(status) == status = "ok"

\* ExitStatus::code(), as printed by {:?}
code(status) == CASE status = "ok" -> "Some(0)" [] status = "fail" -> "Some(1)" [] OTHER -> "None"

\* captured output: `raw` names the bytes, `utf8` says whether they are valid
\* UTF-8, and wellFormed / report say what serde_json makes of them as an
\* outdated report
Text(raw) == [raw |-> raw, utf8 |-> TRUE, wellFormed |-> FALSE, report |-> NoReport]
Json(r) == [raw |-> "json", utf8 |-> TRUE, wellFormed |-> TRUE, report |-> r]
Binary(raw) == [raw |-> raw, utf8 |-> FALSE, wellFormed |-> FALSE, report |-> NoReport]
NoText == Text("none")

\* what `brew outdated --json` may print
Malformed == Text("{")
Documents == { Json(r) : r \in OutdatedPackages } \cup {Malformed}

\* what the other commands may print
Stdouts(kind) == IF kind = "Outdated" THEN Documents ELSE {Text(""), Text("Already up-to-date.")}
Stderrs == {Text(""), Text("Error: network unreachable"), Binary("Error: ")}

\* the outcomes of running `brew <args>` to completion: the spawn fails, or the
\* child exits with a status and leaves its captured stdout and stderr
NoOutcome == [spawned |-> FALSE, exit |-> "none", stdout |-> NoText, stderr |-> NoText]
ExecOutcomes(kind) ==
    { [spawned |-> FALSE, exit |-> "none", stdout |-> Text(""), stderr |-> Text("")] }
    \cup { [spawned |-> TRUE, exit |-> "ok", stdout |-> out, stderr |-> Text("")] :
             out \in Stdouts(kind) \cup {Binary("")} }
    \cup { [spawned |-> TRUE, exit |-> e, stdout |-> Text(""), stderr |-> err] :
             e \in {"fail", "killed"}, err \in Stderrs }

\* Result<String, BrewError>
NoExecResult == [tag |-> "none", kind |-> "none", msg |-> "none", value |-> NoText]
OkText(t) == [tag |-> "Ok", kind |-> "none", msg |-> "none", value |-> t]
ExecErr(kind, msg) == [tag |-> "Err", kind |-> kind, msg |-> msg, value |-> NoText]

\* String::from_utf8_lossy: invalid bytes become U+FFFD
from_utf8_lossy(bytes) == IF bytes.utf8 THEN bytes.raw ELSE bytes.raw \o "U+FFFD"

\* variant: a non-zero exit is not looked at
execute_ignores_status(outcome) ==
    IF ~outcome.spawned THEN ExecErr("ExecutionFailed", "os error")
    ELSE IF outcome.stdout.utf8 THEN OkText(outcome.stdout)
    ELSE ExecErr("ExecutionFailed", "invalid utf-8")

\* maintenance_command.rs: RealBrewCommand::execute, lines 23-32
execute(outcome) ==
    IF ~outcome.spawned THEN ExecErr("ExecutionFailed", "os error")
    ELSE IF success(outcome.exit)
    THEN IF outcome.stdout.utf8 THEN OkText(outcome.stdout)
         ELSE ExecErr("ExecutionFailed", "invalid utf-8")
    ELSE ExecErr("ExecutionFailed", from_utf8_lossy(outcome.stderr))

\* brew_command.rs: BrewCommand
Update(e) == [kind |-> "Update", package_name |-> "", envs |-> e]
Outdated(e) == [kind |-> "Outdated", package_name |-> "", envs |-> e]
Upgrade(name, e) == [kind |-> "Upgrade", package_name |-> name, envs |-> e]
Cleanup(e) == [kind |-> "Cleanup", package_name |-> "", envs |-> e]
NoCommand == [kind |-> "none", package_name |-> "", envs |-> {}]

\* the latest blocking execute: its descriptor, what brew did, the environment
\* the child started with, the executor's result and what the caller returned
NoExec == [cmd |-> NoCommand, outcome |-> NoOutcome, childEnv |-> {},
           result |-> NoExecResult, returned |-> NoExecResult]

\* what the consumer found at its error_rx.try_recv(): whether Completed(Ok(0))
\* was the next event of the queue, whether the child was still running
NoStart == [seen |-> FALSE, completed_ok |-> FALSE, child_running |-> FALSE]

\* a call as the executor sees it
Call(fn, cmd, timeout) ==
    [fn |-> fn, args |-> to_args(cmd), envs |-> to_env(cmd), timeout |-> timeout]
\* Option<_>: None is the empty sequence, Some(x) is <<x>>
None == <<>>
Some(x) == <<x>>

\* ------------------------------------------------------------ initial state
CallIdle ==
    /\ cpc = "idle"
    /\ call_cmd = NoCommand
    /\ call_timeout = 0
    /\ atStart = NoStart
    /\ result = NoResult
    /\ firstEvent = NoEvent
    /\ firstSent = NoEvent
    /\ error_q = <<>>
    /\ event_q = <<>>
    /\ watcher = [s \in Streams |-> "none"]
    /\ completion = "none"
    /\ waitResult = NoEvent
    /\ timer = "none"
    /\ childState = "none"
    /\ exitStatus = "none"
    /\ killPending = FALSE
    /\ plan = NoPlan
    /\ todo = [s \in Streams |-> <<>>]
    /\ pipe = [s \in Streams |-> <<>>]
    /\ promptRead = FALSE

\* std::process::Command::output() as main.rs sees it: Err(e), or Ok(out) with
\* out.status and out.stderr
NoOutput == [ok |-> FALSE, success |-> FALSE, stderr |-> "none"]
MainOutputs ==
    { [ok |-> FALSE, success |-> FALSE, stderr |-> ""],
      [ok |-> TRUE, success |-> TRUE, stderr |-> ""],
      [ok |-> TRUE, success |-> FALSE, stderr |-> ""],
      [ok |-> TRUE, success |-> FALSE, stderr |-> "Error: network unreachable"] }

\* main.rs:48-52
steps ==
    << [desc |-> "brew update", args |-> <<"update">>],
       [desc |-> "brew upgrade", args |-> <<"upgrade", "--quiet">>],
       [desc |-> "brew cleanup", args |-> <<"cleanup">>] >>

MainIdle ==
    /\ mpc = "idle"
    /\ mstep = 0
    /\ moutput = NoOutput
    /\ mlog = <<>>
    /\ mcommands = <<>>
    /\ exitCode = None

OrchStart(p) ==
    /\ pc = p
    /\ runResult = "none"
    /\ runContext = "none"
    /\ outdated_packages = NoReport
    /\ idx = 0
    /\ failed_upgrade = <<>>
    /\ failed_packages = <<>>
    /\ issued = <<>>
    /\ phaseLog = <<>>
    /\ lastExec = NoExec

\* the process has one of the environments of E; no child of it has been
\* started yet
OsStart(E) ==
    /\ ambient \in E
    /\ childEnv = {}
    /\ strayKill = FALSE
    /\ orphans = 0

\* run_maintenance is entered from a login shell with nothing executed yet
Init == OrchStart("update") /\ CallIdle /\ MainIdle /\ OsStart({ShellEnv})

\* ------------------------------------------------------------ the child
\* the child writes the next line of its script to stdout or stderr; a chatty
\* child whose script is over keeps writing plain lines to stdout.  A write
\* needs room in the pipe.
ChildWrite(s) ==
    /\ childState = "running"
    /\ Len(pipe[s]) < PipeCap
    /\ \/ /\ todo[s] # <<>>
          /\ pipe' = [pipe EXCEPT ![s] = Append(@, Head(todo[s]))]
          /\ todo' = [todo EXCEPT ![s] = Tail(@)]
       \/ /\ todo[s] = <<>> /\ plan.chatty /\ s = "stdout"
          /\ pipe' = [pipe EXCEPT ![s] = Append(@, PlainLine)]
          /\ todo' = todo
    /\ UNCHANGED <<orchVars, callVars, mainVars, osVars, childState, exitStatus, killPending, plan, promptRead>>

\* the child exits by itself once its script is written
ChildExit ==
    /\ childState = "running"
    /\ plan.exit # "never"
    /\ \A s \in Streams : todo[s] = <<>>
    /\ childState' = "zombie"
    /\ exitStatus' = plan.exit
    /\ killPending' = FALSE
    /\ UNCHANGED <<orchVars, callVars, mainVars, osVars, plan, todo, pipe, promptRead>>

\* the kernel acts on a pending SIGKILL
ChildDie ==
    /\ childState = "running"
    /\ killPending
    /\ childState' = "zombie"
    /\ exitStatus' = "killed"
    /\ killPending' = FALSE
    /\ UNCHANGED <<orchVars, callVars, mainVars, osVars, plan, todo, pipe, promptRead>>

\* variant: the kill does nothing (the cfg(windows) body)
kill_process_by_pid_noop(state, pending) == pending

\* maintenance_command.rs: kill_process_by_pid (unix): SIGKILL to the recorded
\* pid, errors ignored; the value is killPending after the call
kill_process_by_pid(state, pending) == pending \/ state = "running"

\* a process exists from its spawn until wait has reaped it
exists(state) == state = "running" \/ state = "zombie"

\* variant: the pid is never given to another process
kill_targets_own(state) == IF state = "running" \/ state = "zombie" THEN {"child"} ELSE {"nobody"}

\* kill(2) on the recorded pid: the signal goes to whichever process has that
\* pid now.  Until wait has reaped the child that is the child; afterwards the
\* kernel may have given the pid to a process started by anybody, or to none
\* (ESRCH)
kill_targets(state) ==
    IF state = "running" \/ state = "zombie" THEN {"child"} ELSE {"nobody", "stranger"}

\* ------------------------------------------------------------ the producers
\* maintenance_command.rs: monitor_async_output, one turn of the while loop
monitor_async_output(s) ==
    /\ watcher[s] = "reading"
    /\ IF pipe[s] # <<>>
       THEN /\ pipe' = [pipe EXCEPT ![s] = Tail(@)]
            /\ IF is_waiting_for_input(Head(pipe[s]))
               THEN /\ error_q' = Append(error_q, InputRequested)
                    /\ watcher' = [watcher EXCEPT ![s] = "done"]
                    /\ promptRead' = (promptRead \/ (childState = "running" /\ timer = "sleeping"))
               ELSE UNCHANGED <<error_q, watcher, promptRead>>
       ELSE \* Ok(None): every write end is closed
            /\ childState # "running"
            /\ watcher' = [watcher EXCEPT ![s] = "done"]
            /\ UNCHANGED <<pipe, error_q, promptRead>>
    /\ UNCHANGED <<orchVars, mainVars, osVars, cpc, call_cmd, call_timeout, atStart, result, firstEvent, firstSent, event_q, completion,
                   waitResult, timer, childState, exitStatus, killPending, plan, todo>>

\* spawn_completion_monitor: child.wait_with_output() returns once the child
\* has terminated; the wait reaps it and yields the status or an io error
\* (Runtime::new() is taken to succeed)
completion_wait ==
    /\ completion = "waiting"
    /\ childState = "zombie"
    /\ childState' = "reaped"
    /\ \E io_ok \in BOOLEAN :
         waitResult' = IF io_ok THEN CompletedOk(exitStatus) ELSE CompletedErr
    /\ completion' = "sending"
    /\ UNCHANGED <<orchVars, mainVars, osVars, cpc, call_cmd, call_timeout, atStart, result, firstEvent, firstSent, error_q, event_q,
                   watcher, timer, exitStatus, killPending, plan, todo, pipe, promptRead>>

\* spawn_completion_monitor: tx.send(event), then the thread ends
completion_send ==
    /\ completion = "sending"
    /\ event_q' = Append(event_q, waitResult)
    /\ firstSent' = IF firstSent = NoEvent THEN waitResult ELSE firstSent
    /\ completion' = "done"
    /\ UNCHANGED <<orchVars, mainVars, osVars, childVars, cpc, call_cmd, call_timeout, atStart, result, firstEvent,
                   error_q, watcher,
                   waitResult, timer>>

\* variant: the alarm is raised only once the child has terminated
alarm_after_exit == timer = "sleeping" /\ childState # "running"

\* spawn_timeout_monitor: thread::sleep(timeout) returns whatever the child and
\* the other threads are doing
alarm_elapsed == timer = "sleeping"

\* spawn_timeout_monitor: the sleep is over; send Timeout, then the thread ends
timeout_fire ==
    /\ alarm_elapsed
    /\ event_q' = Append(event_q, ErrorEvent(Timeout))
    /\ firstSent' = IF firstSent = NoEvent THEN ErrorEvent(Timeout) ELSE firstSent
    /\ timer' = "done"
    /\ UNCHANGED <<orchVars, mainVars, osVars, childVars, cpc, call_cmd, call_timeout, atStart, result, firstEvent,
                   error_q, watcher,
                   completion, waitResult>>

\* ------------------------------------------------------------ the consumer
\* execute_with_timeout, lines 84-106: the value of the loop for an event
on_event(ev) ==
    CASE ev.type = "Error" -> ev.error
      [] ev.type = "Completed" /\ ev.ok /\ success(ev.status) -> OkResult
      [] ev.type = "Completed" /\ ev.ok /\ ~success(ev.status) ->
            Err("ExecutionFailed", "Process exited with code")
      [] ev.type = "Completed" /\ ~ev.ok -> Err("ExecutionFailed", "io error")
      [] OTHER -> Err("ExecutionFailed", "Event channel closed")

\* lines 85-89: only the Error arm kills before breaking
kills_on_event(ev) == ev.type = "Error"

\* execute_with_timeout, lines 46-73: spawn_brew_process, then the channels, the
\* two watcher tasks, the completion thread and the timeout thread
spawn ==
    /\ cpc = "called"
    /\ \/ \* spawn_brew_process returns Err: line 50 returns it
          /\ result' = Err("ExecutionFailed", "os error")
          /\ cpc' = "returned"
          /\ UNCHANGED <<watcher, completion, timer, childVars, childEnv>>
       \/ \E p \in Plans :
          /\ plan' = p
          /\ childEnv' = child_env(ambient, to_env(call_cmd))
          /\ todo' = [s \in Streams |-> IF s = "stdout" THEN p.out ELSE p.err]
          /\ childState' = "running"
          /\ watcher' = [s \in Streams |-> "reading"]
          /\ completion' = "waiting"
          /\ timer' = "sleeping"
          /\ cpc' = "try_recv"
          /\ UNCHANGED <<result, exitStatus, killPending, pipe, promptRead>>
    /\ UNCHANGED <<orchVars, mainVars, ambient, strayKill, orphans, call_cmd, call_timeout,
                   atStart, firstEvent, firstSent, error_q, event_q, waitResult>>

\* lines 78-81: error_rx.try_recv()
try_recv ==
    /\ cpc = "try_recv"
    /\ atStart' = [seen |-> TRUE,
                   completed_ok |-> event_q # <<>> /\ Head(event_q) = CompletedOk("ok"),
                   child_running |-> childState = "running"]
    /\ IF error_q # <<>>
       THEN /\ result' = Head(error_q)
            /\ error_q' = Tail(error_q)
            /\ killPending' = kill_process_by_pid(childState, killPending)
            /\ \E target \in kill_targets(childState) :
                 strayKill' = (strayKill \/ target = "stranger")
            /\ cpc' = "cleanup"
       ELSE /\ cpc' = "recv"
            /\ UNCHANGED <<result, error_q, killPending, strayKill>>
    /\ UNCHANGED <<orchVars, mainVars, ambient, childEnv, orphans, call_cmd, call_timeout,
                   firstEvent, firstSent, event_q,
                   watcher, completion,
                   waitResult, timer, childState, exitStatus, plan, todo, pipe, promptRead>>

\* variant: the newest event is taken first
newest_event(q) == q[Len(q)]

\* std::sync::mpsc: recv yields the events in the order they were sent
next_event(q) == Head(q)

\* variant: the consumer polls with try_recv, and an empty queue ends the wait
event_never_awaited == TRUE

\* the event channel is closed when both senders are gone
event_closed == completion = "done" /\ timer = "done"

\* lines 84-106: event_rx.recv() blocks until an event or the close
recv ==
    /\ cpc = "recv"
    /\ event_q # <<>> \/ event_closed
    /\ LET ev == IF event_q # <<>> THEN next_event(event_q) ELSE ChannelClosed IN
        /\ firstEvent' = ev
        /\ result' = on_event(ev)
        /\ event_q' = IF event_q # <<>> THEN Tail(event_q) ELSE event_q
        /\ killPending' = IF kills_on_event(ev) THEN kill_process_by_pid(childState, killPending)
                                               ELSE killPending
        /\ IF kills_on_event(ev)
           THEN \E target \in kill_targets(childState) :
                  strayKill' = (strayKill \/ target = "stranger")
           ELSE strayKill' = strayKill
    /\ cpc' = "cleanup"
    /\ UNCHANGED <<orchVars, mainVars, ambient, childEnv, orphans, call_cmd, call_timeout, atStart, firstSent, error_q, watcher,
                   completion, waitResult,
                   timer, childState, exitStatus, plan, todo, pipe, promptRead>>

\* line 110: the unconditional kill
cleanup_kill ==
    /\ cpc = "cleanup"
    /\ killPending' = kill_process_by_pid(childState, killPending)
    /\ \E target \in kill_targets(childState) :
         strayKill' = (strayKill \/ target = "stranger")
    /\ cpc' = "join_completion"
    /\ UNCHANGED <<orchVars, mainVars, ambient, childEnv, orphans, call_cmd, call_timeout, atStart, result, firstEvent, firstSent,
                   error_q, event_q, watcher,
                   completion, waitResult, timer, childState, exitStatus, plan, todo, pipe,
                   promptRead>>

\* variant: the completion thread is left out of cleanup_threads
skips_completion_join == FALSE

\* cleanup_threads: which threads the consumer joins before it returns
joins_completion == TRUE

\* variant: the timeout thread is left out of cleanup_threads
skips_timeout_join == FALSE

\* cleanup_threads: the timeout thread is joined as well
joins_timeout == TRUE

\* line 111, cleanup_threads: completion_thread.join()
join_completion ==
    /\ cpc = "join_completion"
    /\ joins_completion => completion = "done"
    /\ cpc' = "join_timeout"
    /\ UNCHANGED <<orchVars, mainVars, osVars, childVars, call_cmd, call_timeout, atStart, result, firstEvent,
                   firstSent, error_q,
                   event_q, watcher, completion, waitResult, timer>>

\* line 111, cleanup_threads: timeout_thread.join(); line 113: return result
join_timeout ==
    /\ cpc = "join_timeout"
    /\ joins_timeout => timer = "done"
    /\ cpc' = "returned"
    /\ UNCHANGED <<orchVars, mainVars, osVars, childVars, call_cmd, call_timeout, atStart, result, firstEvent,
                   firstSent, error_q,
                   event_q, watcher, completion, waitResult, timer>>

\* ------------------------------------------------------------ the orchestrator
\* variant: the error is logged and the run goes on
never_propagates(r) == FALSE

\* the `?` of run_maintenance: an Err returns from the function at once
propagates(r) == r.tag = "Err"

\* the record of a blocking execute of cmd in which brew did `outcome` and the
\* caller returned r
blocking(cmd, outcome, r) ==
    [cmd |-> cmd, outcome |-> outcome,
     childEnv |-> IF outcome.spawned THEN child_env(ambient, to_env(cmd)) ELSE {},
     result |-> execute(outcome), returned |-> r]

\* variant: the text of a successful update is dropped
update_returns_unit(r) == IF r.tag = "Ok" THEN OkText(Text("")) ELSE r

\* service.rs:20: the executor's result is the value of the function
update_returns(r) == r

\* service.rs:19-21 and :54: phase 1
update_reference_repositories ==
    /\ pc = "update"
    /\ \E o \in ExecOutcomes("Update") :
        LET cmd == Update(envs(ambient))
            r == update_returns(execute(o)) IN
        /\ issued' = Append(issued, Call("execute", cmd, None))
        /\ lastExec' = blocking(cmd, o, r)
        /\ phaseLog' = Append(phaseLog, r.tag)
        /\ IF propagates(r)
           THEN pc' = "done" /\ runResult' = "Err" /\ runContext' = "update"
           ELSE pc' = "outdated" /\ UNCHANGED <<runResult, runContext>>
    /\ UNCHANGED <<outdated_packages, idx, failed_upgrade, failed_packages,
                   callVars, childVars, mainVars, osVars>>

\* service.rs:23-27 and :57: phase 2; a document serde_json rejects panics in expect
find_outdated_packages ==
    /\ pc = "outdated"
    /\ \E o \in ExecOutcomes("Outdated") :
        LET cmd == Outdated(envs(ambient))
            r == execute(o)
            doc == r.value IN
        /\ issued' = Append(issued, Call("execute", cmd, None))
        /\ lastExec' = blocking(cmd, o, r)
        /\ phaseLog' = Append(phaseLog, r.tag)
        /\ IF propagates(r)
           THEN /\ pc' = "done" /\ runResult' = "Err" /\ runContext' = "outdated"
                /\ UNCHANGED <<outdated_packages, idx>>
           ELSE IF ~doc.wellFormed
           THEN /\ pc' = "panicked"
                /\ UNCHANGED <<runResult, runContext, outdated_packages, idx>>
           ELSE /\ pc' = "upgrade"
                /\ outdated_packages' = doc.report
                /\ idx' = 1
                /\ UNCHANGED <<runResult, runContext>>
    /\ UNCHANGED <<failed_upgrade, failed_packages, callVars, childVars, mainVars, osVars>>

\* variant: the condition of the if let is inverted
record_success(failed, package, r) == IF r.tag = "Ok" THEN Append(failed, package) ELSE failed

\* service.rs:34-43: the body of the phase-3 loop after the call has returned
record_failure(failed, package, r) == IF r.tag = "Err" THEN Append(failed, package) ELSE failed

\* service.rs:33: the loop goes on to the next package whatever the call returned
next_package(i, r) == i + 1

\* variant: a non-empty failure list is returned as an error
upgrade_result_strict(failed) ==
    IF failed = <<>> THEN OkResult ELSE Err("ExecutionFailed", "upgrade failed")

\* service.rs:45: the value of upgrade_packages_with_timeout
upgrade_result(failed) == OkResult

\* variant: Duration::seconds(5)
per_package_timeout_seconds == 5 * 1000

\* service.rs:61: the timeout run_maintenance passes
per_package_timeout == FiveMinutes

\* service.rs:33-40: the loop calls execute_with_timeout for the next package
upgrade_call ==
    /\ pc = "upgrade"
    /\ cpc = "idle"
    /\ idx <= Len(iter(outdated_packages))
    /\ LET package == iter(outdated_packages)[idx] IN
        /\ call_cmd' = Upgrade(package.name, envs(ambient))
        /\ call_timeout' = per_package_timeout
        /\ issued' = Append(issued, Call("execute_with_timeout", Upgrade(package.name, envs(ambient)),
                                         Some(per_package_timeout)))
    /\ cpc' = "called"
    /\ UNCHANGED <<pc, runResult, runContext, outdated_packages, idx, failed_upgrade,
                   failed_packages, phaseLog, lastExec, atStart, result, firstEvent, firstSent, error_q, event_q,
                   watcher, completion, waitResult, timer, childVars, mainVars, osVars>>

\* service.rs:34-44: the call returned.  Its frame is gone: the channels are
\* dropped and the threads were joined; whatever a watcher task of this call
\* still does can reach nobody, so the tasks are not followed any further
upgrade_return ==
    /\ pc = "upgrade"
    /\ cpc = "returned"
    /\ failed_upgrade' = record_failure(failed_upgrade, iter(outdated_packages)[idx], result)
    /\ phaseLog' = Append(phaseLog, result.tag)
    /\ idx' = next_package(idx, result)
    /\ cpc' = "idle"
    /\ call_cmd' = NoCommand
    /\ call_timeout' = 0
    /\ atStart' = NoStart
    /\ result' = NoResult
    /\ firstEvent' = NoEvent
    /\ firstSent' = NoEvent
    /\ error_q' = <<>>
    /\ event_q' = <<>>
    /\ watcher' = [s \in Streams |-> "none"]
    /\ completion' = "none"
    /\ waitResult' = NoEvent
    /\ timer' = "none"
    /\ childState' = "none"
    /\ exitStatus' = "none"
    /\ killPending' = FALSE
    /\ plan' = NoPlan
    /\ todo' = [s \in Streams |-> <<>>]
    /\ pipe' = [s \in Streams |-> <<>>]
    /\ promptRead' = FALSE
    /\ childEnv' = {}
    /\ strayKill' = FALSE
    /\ orphans' = orphans + (IF exists(childState) THEN 1 ELSE 0)
    /\ UNCHANGED <<pc, runResult, runContext, outdated_packages, failed_packages, issued, lastExec,
                   mainVars, ambient>>

\* service.rs:45 and :60-65: the loop is over
upgrade_done ==
    /\ pc = "upgrade"
    /\ cpc = "idle"
    /\ idx > Len(iter(outdated_packages))
    /\ IF propagates(upgrade_result(failed_upgrade))
       THEN /\ pc' = "done" /\ runResult' = "Err" /\ runContext' = "upgrade"
            /\ UNCHANGED failed_packages
       ELSE /\ pc' = "cleanup"
            /\ failed_packages' = failed_upgrade
            /\ UNCHANGED <<runResult, runContext>>
    /\ UNCHANGED <<outdated_packages, idx, failed_upgrade, issued, phaseLog, lastExec,
                   callVars, childVars, mainVars, osVars>>

\* service.rs:48-50 and :66-69: phase 4
cleanup ==
    /\ pc = "cleanup"
    /\ \E o \in ExecOutcomes("Cleanup") :
        LET cmd == Cleanup(envs(ambient))
            r == execute(o) IN
        /\ issued' = Append(issued, Call("execute", cmd, None))
        /\ lastExec' = blocking(cmd, o, r)
        /\ phaseLog' = Append(phaseLog, r.tag)
        /\ pc' = "done"
        /\ IF propagates(r)
           THEN runResult' = "Err" /\ runContext' = "cleanup"
           ELSE runResult' = "Ok" /\ UNCHANGED runContext
    /\ UNCHANGED <<outdated_packages, idx, failed_upgrade, failed_packages,
                   callVars, childVars, mainVars, osVars>>

Next ==
    \/ update_reference_repositories
    \/ find_outdated_packages
    \/ upgrade_call
    \/ upgrade_return
    \/ upgrade_done
    \/ cleanup
    \/ spawn
    \/ try_recv
    \/ recv
    \/ cleanup_kill
    \/ join_completion
    \/ join_timeout
    \/ \E s \in Streams : monitor_async_output(s)
    \/ completion_wait
    \/ completion_send
    \/ timeout_fire
    \/ \E s \in Streams : ChildWrite(s)
    \/ ChildExit
    \/ ChildDie

Spec == Init /\ [][Next]_vars

\* One supervised call on its own: execute_with_timeout has just been called with
\* an Upgrade descriptor and a timeout
CallTimeouts == {0 - 1, 0, FiveMinutes}
CallNames == {"foo", ""}

InitCall ==
    /\ OrchStart("idle") /\ MainIdle /\ OsStart(Ambients)
    /\ cpc = "called"
    /\ call_cmd \in {Upgrade(n, envs(ambient)) : n \in CallNames}
    /\ call_timeout \in CallTimeouts
    /\ atStart = NoStart
    /\ result = NoResult
    /\ firstEvent = NoEvent
    /\ firstSent = NoEvent
    /\ error_q = <<>>
    /\ event_q = <<>>
    /\ watcher = [s \in Streams |-> "none"]
    /\ completion = "none"
    /\ waitResult = NoEvent
    /\ timer = "none"
    /\ childState = "none"
    /\ exitStatus = "none"
    /\ killPending = FALSE
    /\ plan = NoPlan
    /\ todo = [s \in Streams |-> <<>>]
    /\ pipe = [s \in Streams |-> <<>>]
    /\ promptRead = FALSE

NextCall ==
    \/ spawn
    \/ try_recv
    \/ recv
    \/ cleanup_kill
    \/ join_completion
    \/ join_timeout
    \/ \E s \in Streams : monitor_async_output(s)
    \/ completion_wait
    \/ completion_send
    \/ timeout_fire
    \/ \E s \in Streams : ChildWrite(s)
    \/ ChildExit
    \/ ChildDie

SpecCall == InitCall /\ [][NextCall]_vars

\* ------------------------------------------------------------ main.rs
\* main.rs:56: Command::new("brew").args(args).output()
main_run ==
    /\ mpc = "run"
    /\ \E o \in MainOutputs : moutput' = o
    /\ mcommands' = Append(mcommands, steps[mstep].args)
    /\ mpc' = "match"
    /\ UNCHANGED <<orchVars, callVars, childVars, osVars, mstep, mlog, exitCode>>

\* main.rs:58-71: what the match logs for an output
log_entry(desc, out) ==
    IF out.ok
    THEN IF ~out.success
         THEN [step |-> desc, outcome |-> "failed", detail |-> out.stderr]
         ELSE [step |-> desc, outcome |-> "completed", detail |-> ""]
    ELSE [step |-> desc, outcome |-> "failed to run", detail |-> "os error"]

\* main.rs:54 and :58-72: the match only logs; the for loop goes on
main_match ==
    /\ mpc = "match"
    /\ mlog' = Append(mlog, log_entry(steps[mstep].desc, moutput))
    /\ moutput' = NoOutput
    /\ IF mstep < Len(steps)
       THEN mstep' = mstep + 1 /\ mpc' = "run"
       ELSE mstep' = mstep /\ mpc' = "exit"
    /\ UNCHANGED <<orchVars, callVars, childVars, osVars, mcommands, exitCode>>

\* main.rs:75: main returns (), the process exits with status 0
exit_code(log) == 0

\* main.rs:74-75
main_exit ==
    /\ mpc = "exit"
    /\ exitCode' = Some(exit_code(mlog))
    /\ mpc' = "done"
    /\ UNCHANGED <<orchVars, callVars, childVars, osVars, mstep, moutput, mlog, mcommands>>

\* the binary: main has logged its start and enters the loop
InitMain ==
    /\ OrchStart("idle") /\ CallIdle /\ OsStart(Ambients)
    /\ mpc = "run"
    /\ mstep = 1
    /\ moutput = NoOutput
    /\ mlog = <<>>
    /\ mcommands = <<>>
    /\ exitCode = None

NextMain == main_run \/ main_match \/ main_exit

SpecMain == InitMain /\ [][NextMain]_vars

\* The completion thread and the timeout thread are OS threads, the consumer
\* runs on the caller's thread and the kernel delivers SIGKILL: each of them
\* takes its next step when it can.  Nothing is assumed of the child or of the
\* two watcher tasks.
Fairness ==
    /\ WF_vars(try_recv) /\ WF_vars(recv) /\ WF_vars(cleanup_kill)
    /\ WF_vars(join_completion) /\ WF_vars(join_timeout)
    /\ WF_vars(completion_wait) /\ WF_vars(completion_send)
    /\ WF_vars(timeout_fire)
    /\ WF_vars(ChildDie)

FairCall == SpecCall /\ Fairness

\* ------------------------------------------------------------ properties
InCall == cpc \notin {"idle", "called", "returned"}

\* C1 (as claimed): a call during which a watcher read a prompt line while the
\* child was running and the alarm had not fired returns Err(InputRequested)
C1_PromptGivesInputRequested ==
    (cpc = "returned" /\ promptRead) => result = InputRequested

\* C2: a child that never exits and never writes a prompt line makes the call
\* return Err(Timeout), and the child has been killed by then
C2_SilentHangTimesOut ==
    (cpc = "try_recv" /\ plan.exit = "never" /\ plan.out = <<>> /\ plan.err = <<>>)
        ~> (cpc = "returned" /\ result = Timeout /\ exitStatus = "killed")

C2_Witness ==
    /\ cpc = "returned" /\ result = Timeout /\ exitStatus = "killed"
    /\ plan.exit = "never" /\ plan.out = <<>> /\ plan.err = <<>> /\ ~plan.chatty
    /\ firstEvent = ErrorEvent(Timeout)

\* C3: when a call whose spawn succeeded returns, with any result, its child
\* is not running any more
C3_ChildGoneOnReturn ==
    (cpc = "returned" /\ childState # "none") => childState \in {"zombie", "reaped"}

C3_Witness ==
    /\ cpc = "returned" /\ result = Timeout
    /\ childState = "reaped" /\ exitStatus = "killed"

\* C4: every call that has spawned its child returns, whatever the child does
C4_CallReturns == InCall ~> (cpc = "returned")

C4_Witness ==
    /\ cpc = "returned" /\ plan.chatty /\ timer = "done"

\* C5: the result is the one the first event received from the event queue
\* stands for, that event is the first one a producer enqueued, and the result
\* never changes afterwards
C5_FirstEventDecides ==
    /\ [](firstEvent # NoEvent =>
            /\ firstEvent = firstSent
            /\ firstEvent.type = "Error" => result = Timeout
            /\ (firstEvent.type = "Completed" /\ firstEvent.ok /\ firstEvent.status = "ok")
                  => result = OkResult
            /\ (firstEvent.type = "Completed" /\ firstEvent.ok /\ firstEvent.status # "ok")
                  => (result.tag = "Err" /\ result.kind = "ExecutionFailed")
            /\ (firstEvent.type = "Completed" /\ ~firstEvent.ok)
                  => (result.tag = "Err" /\ result.kind = "ExecutionFailed"))
    /\ [][(result # NoResult /\ cpc' # "idle") => result' = result]_vars

C5_Witness ==
    /\ cpc = "returned" /\ result = OkResult
    /\ firstEvent = CompletedOk("ok")
    /\ timer = "done" /\ event_q = <<ErrorEvent(Timeout)>>

\* ---- run_maintenance
\* the packages of the report and the executor calls of phase 3 made so far
Pkgs == iter(outdated_packages)
Phase3Ran == Len(phaseLog) >= 2 /\ phaseLog[1] = "Ok" /\ phaseLog[2] = "Ok" /\ pc # "panicked"
UpgradeCalls == { i \in 1..Len(issued) : issued[i].fn = "execute_with_timeout" }
IsCleanup(c) == c.fn = "execute" /\ c.args = <<"cleanup">>

\* C6: a call of phase 3 that returns an error of any kind leaves the loop
\* running at the next package; phase 3 ends with one call made per package,
\* never with an error, and a finished run has issued cleanup last
C6_UpgradeFailureTolerated ==
    /\ [][(pc = "upgrade" /\ cpc = "returned" /\ result.tag = "Err" /\ cpc' = "idle")
            => (pc' = "upgrade" /\ idx' = idx + 1 /\ runResult' = "none")]_vars
    /\ []((Phase3Ran /\ pc \in {"cleanup", "done"}) =>
            /\ Cardinality(UpgradeCalls) = Len(Pkgs)
            /\ runContext # "upgrade"
            /\ pc = "done" => IsCleanup(issued[Len(issued)]))

C6_Witness ==
    /\ pc = "done" /\ runResult = "Ok"
    /\ Len(Pkgs) = 2 /\ phaseLog[3] = "Err" /\ phaseLog[4] = "Ok"
    /\ IsCleanup(issued[Len(issued)])

\* the phase a call belongs to
Rank(c) ==
    CASE c.args = <<"update">> -> 1
      [] c.args = <<"outdated", "--json">> -> 2
      [] c.args[1] = "upgrade" -> 3
      [] c.args = <<"cleanup">> -> 4
      [] OTHER -> 0

ContextOf(c) ==
    CASE Rank(c) = 1 -> "update" [] Rank(c) = 2 -> "outdated" [] Rank(c) = 4 -> "cleanup"
      [] OTHER -> "none"

\* C7: the calls are issued in the order update, outdated, upgrades, cleanup,
\* the three blocking ones once each, and after a blocking call has returned
\* an error no further call is issued: the run is over with that phase's error
C7_PhasesInOrderAndFatal ==
    /\ Len(issued) <= 3 + Len(Pkgs)
    /\ \A i \in 1..Len(issued) :
        Rank(issued[i]) = (CASE i = 1 -> 1
                             [] i = 2 -> 2
                             [] i > 2 /\ i <= 2 + Len(Pkgs) -> 3
                             [] OTHER -> 4)
    /\ \A k \in 1..Len(phaseLog) :
        (phaseLog[k] = "Err" /\ issued[k].fn = "execute") =>
            /\ Len(issued) = k
            /\ pc = "done" /\ runResult = "Err"
            /\ runContext = ContextOf(issued[k])

C7_Witness ==
    /\ pc = "done" /\ runResult = "Err" /\ runContext = "update"
    /\ Len(issued) = 1 /\ phaseLog = <<"Err">>

\* C8 (as claimed): the process exits with 0 exactly when the refresh and the
\* cleanup step both succeeded, and with another code otherwise
C8_ExitCodeTellsFatalPhases ==
    mpc = "done" =>
        (exitCode = Some(0) <=> (mlog[1].outcome = "completed" /\ mlog[3].outcome = "completed"))

\* the packages of pkgs[1..k] whose call, the (2+i)-th of the run, returned Err
RECURSIVE FailedAmong(_, _, _)
FailedAmong(pkgs, log, k) ==
    IF k = 0 THEN <<>>
    ELSE IF log[2 + k] = "Err" THEN Append(FailedAmong(pkgs, log, k - 1), pkgs[k])
         ELSE FailedAmong(pkgs, log, k - 1)

\* C9: the failure list holds the packages whose call returned Err, once per
\* failed call and in the order of the calls, and phase 3 hands it to
\* run_maintenance as an Ok value
C9_FailureListExact ==
    /\ (pc = "upgrade" /\ cpc # "returned") =>
            failed_upgrade = FailedAmong(Pkgs, phaseLog, Len(phaseLog) - 2)
    /\ (Phase3Ran /\ pc \in {"cleanup", "done"}) =>
            /\ failed_packages = FailedAmong(Pkgs, phaseLog, Len(Pkgs))
            /\ runContext # "upgrade"

C9_Witness ==
    /\ pc = "cleanup"
    /\ Len(Pkgs) = 3
    /\ Pkgs[1] = Pkgs[2] /\ Pkgs[3] # Pkgs[1]
    /\ phaseLog = <<"Ok", "Ok", "Err", "Err", "Ok">>
    /\ failed_packages = <<Pkgs[1], Pkgs[2]>>

\* C10: when phase 3 is over, the calls after the first two are exactly one
\* upgrade call per formula, in order, then one per cask, in order, pinned and
\* repeated names included, each with a timeout of five minutes
C10_OneUpgradePerPackage ==
    (Phase3Ran /\ pc \in {"cleanup", "done"}) =>
        LET F == outdated_packages.formulae
            C == outdated_packages.casks
        IN  /\ Cardinality(UpgradeCalls) = Len(F) + Len(C)
            /\ \A i \in 1..Len(F) :
                 /\ issued[2 + i].fn = "execute_with_timeout"
                 /\ issued[2 + i].args = <<"upgrade", F[i].name>>
                 /\ issued[2 + i].timeout = <<5 * 60 * 1000>>
            /\ \A j \in 1..Len(C) :
                 /\ issued[2 + Len(F) + j].fn = "execute_with_timeout"
                 /\ issued[2 + Len(F) + j].args = <<"upgrade", C[j].name>>
                 /\ issued[2 + Len(F) + j].timeout = <<5 * 60 * 1000>>

C10_Witness ==
    /\ pc = "cleanup"
    /\ Len(outdated_packages.formulae) = 2 /\ Len(outdated_packages.casks) = 1
    /\ outdated_packages.formulae[1].pinned
    /\ outdated_packages.formulae[1] = outdated_packages.formulae[2]
    /\ outdated_packages.casks[1] # outdated_packages.formulae[1]
    /\ issued[3].args = <<"upgrade", "qux">> /\ issued[5].args = <<"upgrade", "foo">>
    /\ Cardinality(UpgradeCalls) = 3

\* ------------------------------------------------------------ C11
\* the supervised children of this run that exist now: those left behind by
\* calls that returned, and the child of the call in progress
LiveChildren == orphans + (IF exists(childState) THEN 1 ELSE 0)

\* C11: during a maintenance run at most one supervised child exists at any
\* instant: no call returns before its child has terminated and been reaped,
\* and the upgrade of the next package is spawned only after that return
C11_AtMostOneChild ==
    /\ LiveChildren <= 1
    /\ orphans = 0
    /\ exists(childState) => cpc \notin {"idle", "called", "returned"}

\* the child of the second package runs after the first call has returned
C11_Witness ==
    /\ Len(Pkgs) >= 2
    /\ idx = 2
    /\ Len(phaseLog) = 3
    /\ childState = "running"

\* ------------------------------------------------------------ C12
\* C12 (as claimed): when the list-outdated command succeeds with a stdout that
\* is not a well-formed outdated report, the run ends as a phase-2 failure: an
\* error value reaches the orchestrator, nothing panics, and no upgrade or
\* cleanup command is issued
C12_MalformedReportIsAnError ==
    (/\ lastExec.cmd.kind = "Outdated"
     /\ lastExec.result.tag = "Ok"
     /\ ~lastExec.result.value.wellFormed)
    => /\ pc = "done"
       /\ runResult = "Err"
       /\ runContext = "outdated"
       /\ Len(issued) = 2

\* ------------------------------------------------------------ C13
\* C13 (as claimed): when the child has exited with status zero and its
\* Completed event is already the next event of the queue as the consumer
\* starts looking for events, the call returns Ok(()), whether or not a
\* watcher has seen or will see a prompt line of that child
C13_CompletedWinsOverPrompt ==
    (cpc = "returned" /\ atStart.seen /\ atStart.completed_ok) => result = OkResult

\* ------------------------------------------------------------ C14
\* the consumer found no pending error and went on to event_rx.recv()
EnteredWait == atStart.seen /\ firstEvent # NoEvent

\* C14 (as claimed): with a timeout of zero, or a negative one, a call whose
\* child had not exited when the consumer entered its wait on the event queue
\* returns Err(Timeout); Ok(()) is returned only if the child had exited by then
C14_ZeroTimeoutTimesOut ==
    (cpc = "returned" /\ std_timeout(call_timeout) = 0 /\ EnteredWait /\ atStart.child_running)
    => result = Timeout

\* ------------------------------------------------------------ C15
\* C15 (as claimed): a call for an Upgrade descriptor with the empty package
\* name never starts a child, a watcher or an alarm, and returns
\* Err(ExecutionFailed)
C15_EmptyNameRejected ==
    (call_cmd.kind = "Upgrade" /\ call_cmd.package_name = "")
    => /\ childState = "none"
       /\ \A s \in Streams : watcher[s] = "none"
       /\ completion = "none"
       /\ timer = "none"
       /\ cpc = "returned" => (result.tag = "Err" /\ result.kind = "ExecutionFailed")

\* ------------------------------------------------------------ C16
\* C16: the blocking execute never returns InputRequested or Timeout; a spawn
\* failure gives ExecutionFailed with the OS error, exit status zero with UTF-8
\* stdout gives Ok with the whole stdout, exit status zero with other stdout
\* gives ExecutionFailed, and a non-zero exit status gives ExecutionFailed
\* with the stderr text
C16_ExecuteClassifies ==
    lastExec # NoExec =>
        LET o == lastExec.outcome
            r == lastExec.result
            failed == r.tag = "Err" /\ r.kind = "ExecutionFailed"
        IN  /\ r.tag \in {"Ok", "Err"}
            /\ r.tag = "Err" => r.kind \notin {"InputRequested", "Timeout"}
            /\ ~o.spawned => (failed /\ r.msg = "os error")
            /\ (o.spawned /\ o.exit = "ok" /\ o.stdout.utf8) => (r.tag = "Ok" /\ r.value = o.stdout)
            /\ (o.spawned /\ o.exit = "ok" /\ ~o.stdout.utf8) => failed
            /\ (o.spawned /\ o.exit # "ok") => failed
            /\ (o.spawned /\ o.exit # "ok" /\ o.stderr.utf8) => r.msg = o.stderr.raw

\* brew exited with a non-zero status and its stderr came back as the message
C16_Witness ==
    /\ lastExec.outcome.spawned
    /\ lastExec.outcome.exit = "fail"
    /\ lastExec.result.msg = "Error: network unreachable"

\* ------------------------------------------------------------ C17
\* C17 (as claimed): the child of execute and the child of
\* execute_with_timeout start with exactly the variables of the descriptor's
\* env mapping; no other variable of this process reaches them
C17_ChildEnvIsDescriptorEnv ==
    /\ lastExec.outcome.spawned => lastExec.childEnv = lastExec.cmd.envs
    /\ childState # "none" => childEnv = call_cmd.envs

\* ------------------------------------------------------------ C18
\* C18: update_reference_repositories makes exactly one executor call, an
\* execute whose arguments are ["update"] and whose env is HOME and PATH as
\* set for this process, and returns the result of that call unchanged
C18_UpdateIsOneExecute ==
    lastExec.cmd.kind = "Update" =>
        /\ Len(issued) = 1
        /\ issued[1] = [fn |-> "execute", args |-> <<"update">>,
                        envs |-> { p \in ambient : p[1] \in {"HOME", "PATH"} },
                        timeout |-> None]
        /\ lastExec.returned = lastExec.result
        /\ phaseLog = <<lastExec.returned.tag>>

\* brew update printed a line and that text is what the function returned
C18_Witness ==
    /\ lastExec.cmd.kind = "Update"
    /\ lastExec.returned.tag = "Ok"
    /\ lastExec.returned.value.raw = "Already up-to-date."
    /\ pc = "outdated"

\* ------------------------------------------------------------ C19
\* C19 (as claimed): when a call that spawned a child returns, the stdout
\* watcher, the stderr watcher, the completion watcher and the timeout alarm
\* have all terminated
C19_ProducersDoneOnReturn ==
    (cpc = "returned" /\ childState # "none")
    => /\ \A s \in Streams : watcher[s] = "done"
       /\ completion = "done"
       /\ timer = "done"

\* ------------------------------------------------------------ C20
\* C20 (as claimed): every kill signal of a call reaches its own child or
\* nobody, also the kill that is sent after the completion watcher has reaped
\* the child
C20_KillReachesOnlyChild == ~strayKill

\* ------------------------------------------------------------ C21
\* the alarm's Timeout event has been sent: the consumer received it, or it is
\* still in the queue
TimeoutEnqueued ==
    \/ firstEvent = ErrorEvent(Timeout)
    \/ \E i \in 1..Len(event_q) : event_q[i] = ErrorEvent(Timeout)

\* C21: a call that spawned its child returns only after the timeout alarm has
\* finished: its sleep is over and its Timeout event is enqueued, whatever
\* event decided the result
C21_ReturnsAfterAlarm ==
    (cpc = "returned" /\ childState # "none") => (timer = "done" /\ TimeoutEnqueued)

\* the child exited with status zero, Completed decided the result, and the
\* call still returned only with the alarm done and its Timeout left in the queue
C21_Witness ==
    /\ cpc = "returned"
    /\ result = OkResult
    /\ firstEvent = CompletedOk("ok")
    /\ timer = "done"
    /\ event_q = <<ErrorEvent(Timeout)>>

\* ------------------------------------------------------------ C22
\* C22: the consumer's wait on the event queue always yields an event: the
\* queue is never closed and empty while the consumer waits, so no call
\* results in ExecutionFailed("Event channel closed")
C22_EventChannelNeverClosed ==
    /\ (cpc = "recv" /\ event_closed) => event_q # <<>>
    /\ firstEvent # ChannelClosed
    /\ result # Err("ExecutionFailed", "Event channel closed")

\* both producers have sent and ended before the consumer reached its recv,
\* which then still finds their two events
C22_Witness ==
    /\ cpc = "recv"
    /\ event_closed
    /\ Len(event_q) = 2

====
